---- MODULE Spec2Model ----
(***************************************************************************)
(* ThicketDB (src/thicket_db.py): the versioned JSON model database of the *)
(* Thicket add-on and its parallel build pipeline.                         *)
(*                                                                         *)
(* Python dicts are functions, lists are sequences, a missing dict key is  *)
(* a key outside DOMAIN (Python raises KeyError there).  List indices are  *)
(* 0-based in the code and 1-based here.                                   *)
(***************************************************************************)
EXTENDS Integers, Sequences, FiniteSets, TLC

\* Bounds of the model.
MaxFiles == 3       \* most asset files one glob of the models directory returns
MaxCpu == 2         \* largest value os.cpu_count() reports
MaxSchema == 3      \* largest schema_version a stored document carries

\* Program constants.
SCHEMA_VERSION == 2
DEFAULT_NUM_JOBS == 4

Range(s) == {s[i] : i \in 1..Len(s)}

(***************************************************************************)
(* The environment: the asset files below the models directory, what the   *)
(* Laubwerk SDK reports for each of them, and the preview images on disk.  *)
(***************************************************************************)
AssetFiles == {"oak.lbw.gz", "pine.lbw.gz", "elm.lbw.gz", "oak_b.lbw.gz"}

\* lbw.load(filepath): name, the declared variant and season parameters
\* (options, 0-based default) and the actual variant list of the plant.
\* The elm declares a variant option, its default, that its variant list
\* does not hold.
lbw_load(filepath) ==
    CASE filepath = "oak.lbw.gz" ->
           [name |-> "Oak",
            variant_options |-> <<"01young", "01adult">>, variant_default |-> 1,
            variants |-> <<"01young", "01adult">>,
            season_options |-> <<"spring", "summer">>, season_default |-> 1]
      [] filepath = "pine.lbw.gz" ->
           [name |-> "Pine",
            variant_options |-> <<"01adult">>, variant_default |-> 0,
            variants |-> <<"01adult">>,
            season_options |-> <<"spring", "summer">>, season_default |-> 0]
      [] filepath = "elm.lbw.gz" ->
           [name |-> "Elm",
            variant_options |-> <<"01young", "02adult">>, variant_default |-> 0,
            variants |-> <<"02adult">>,
            season_options |-> <<"summer">>, season_default |-> 0]
      [] OTHER ->
           [name |-> "Oak",
            variant_options |-> <<"01adult">>, variant_default |-> 0,
            variants |-> <<"01adult">>,
            season_options |-> <<"spring", "summer">>, season_default |-> 0]

\* The label blob the SDK holds for a name of a plant file: language -> string.
\* The second oak file carries other strings than the first.
lbw_labels(filepath, key) ==
    CASE key = "Oak" /\ filepath = "oak.lbw.gz" ->
           ("en-US" :> "Oak") @@ ("de-DE" :> "Eiche")
      [] key = "Oak" -> ("en-US" :> "English Oak")
      [] key = "Pine" -> ("en-US" :> "Pine") @@ ("de-DE" :> "Kiefer")
      [] key = "Elm" -> ("de-DE" :> "Ulme")
      [] key = "01young" -> ("en-US" :> "young") @@ ("de-DE" :> "jung")
      [] key = "01adult" -> ("en-US" :> "adult")
      [] key = "02adult" -> ("en-US" :> "adult") @@ ("de-DE" :> "erwachsen")
      [] key = "spring" -> ("en-US" :> "Spring") @@ ("de-DE" :> "")
      [] OTHER -> ("en-US" :> "Summer") @@ ("de-DE" :> "Sommer")

\* lbw.get_lang_string(labels, lbw_lang) raises ValueError for a language the
\* blob does not hold.
get_lang_string_raises(labels, lbw_lang) == lbw_lang \notin DOMAIN labels

\* md5sum(filename): the checksum of the file's bytes.
md5sum(filename) ==
    CASE filename = "oak.lbw.gz" -> "md5:0a"
      [] filename = "pine.lbw.gz" -> "md5:1b"
      [] filename = "elm.lbw.gz" -> "md5:2c"
      [] OTHER -> "md5:3d"

\* Path(filepath).stem and os.path.splitext(stem)[0].
PathStem(filepath) ==
    CASE filepath = "oak.lbw.gz" -> "oak.lbw"
      [] filepath = "pine.lbw.gz" -> "pine.lbw"
      [] filepath = "elm.lbw.gz" -> "elm.lbw"
      [] OTHER -> "oak_b.lbw"

SplitExt(stem) ==
    CASE stem = "oak.lbw" -> "oak"
      [] stem = "pine.lbw" -> "pine"
      [] stem = "elm.lbw" -> "elm"
      [] OTHER -> "oak_b"

\* The preview images that exist (Path.is_file).
PreviewFiles == {"oak.lbw.png", "pine.png", "models/oak.lbw_01adult.png",
                 "models/pine_01adult.png"}

(***************************************************************************)
(* ThicketDB.retrieve_labels and ThicketDB.parse_model                     *)
(***************************************************************************)
\* The locales the database object was constructed with.
locales == <<"en_US", "de_DE", "zh_HANS">>

\* lang with "zh_HANS" replaced by "zh_CN", then "_" replaced by "-".
LbwLang(lang) ==
    CASE lang = "en_US" -> "en-US"
      [] lang = "de_DE" -> "de-DE"
      [] lang = "zh_HANS" -> "zh-CN"
      [] OTHER -> lang

\* One entry per requested locale the blob has a string for.
retrieve_labels(labels, locs) ==
    [lang \in {l \in Range(locs) : ~get_lang_string_raises(labels, LbwLang(l))}
        |-> labels[LbwLang(lang)]]

\* d.update(e) of Python dicts: the keys of e replace or extend those of d.
DictUpdate(d, e) == e @@ d

\* d[k] = v
DictSet(d, k, v) == (k :> v) @@ d

\* The model-level preview: stem + ".png", else the stem without its last
\* extension + ".png", else "".  Returns <<preview_stem, preview_path>>.
ModelPreview(filepath) ==
    LET stem == PathStem(filepath)
        short == SplitExt(stem)
    IN  IF (stem \o ".png") \in PreviewFiles THEN <<stem, stem \o ".png">>
        ELSE IF (short \o ".png") \in PreviewFiles THEN <<short, short \o ".png">>
        ELSE <<short, "">>

VariantPreview(preview_stem, vname) ==
    LET p == "models/" \o preview_stem \o "_" \o vname \o ".png"
    IN  IF p \in PreviewFiles THEN p ELSE ""

\* The loop over m.variants (lines 307-322) run for the first n variants:
\* <<variants, labels>>.
RECURSIVE VariantLoop(_, _, _, _, _, _, _)
VariantLoop(filepath, m, seasons, s_labels, labels0, preview_stem, n) ==
    IF n = 0 THEN << <<>>, labels0 >>
    ELSE LET prev == VariantLoop(filepath, m, seasons, s_labels, labels0, preview_stem, n - 1)
             vname == m.variants[n]
             v_rec == [index |-> n - 1,
                       seasons |-> seasons,
                       default_season |-> seasons[m.season_default + 1],
                       preview |-> VariantPreview(preview_stem, vname)]
             labels1 == DictUpdate(prev[2], s_labels)
         IN  << DictSet(prev[1], vname, v_rec),
                DictSet(labels1, vname,
                        retrieve_labels(lbw_labels(filepath, vname), locales)) >>

parse_model(filepath) ==
    LET m == lbw_load(filepath)
        mp == ModelPreview(filepath)
        seasons == m.season_options
        s_labels == [s \in Range(seasons) |->
                        retrieve_labels(lbw_labels(filepath, s), locales)]
        labels0 == (m.name :> retrieve_labels(lbw_labels(filepath, m.name), locales))
        loop == VariantLoop(filepath, m, seasons, s_labels, labels0, mp[1],
                            Len(m.variants))
        model == [name |-> m.name,
                  filepath |-> filepath,
                  md5 |-> md5sum(filepath),
                  default_variant |-> m.variant_options[m.variant_default + 1],
                  preview |-> mp[2],
                  variants |-> loop[1]]
    IN  [model |-> model, labels |-> loop[2]]

(***************************************************************************)
(* JSON text.  A text is either not JSON at all (kind "text"; kind "bytes"  *)
(* when it is not even UTF-8), or a JSON value (kind "json"); a JSON       *)
(* object is its set of <<key, value>> members, so that writing a dict     *)
(* (json.dump) and reading it back (json.load) are two conversions.        *)
(***************************************************************************)
ObjToPairs(d) == {<<k, d[k]>> : k \in DOMAIN d}
PairsToObj(S) == [k \in {p[1] : p \in S} |-> (CHOOSE p \in S : p[1] = k)[2]]

\* json.dumps / json.dump of the values the program writes.
DumpLabels(labels) == ObjToPairs([k \in DOMAIN labels |-> ObjToPairs(labels[k])])
DumpVariants(variants) ==
    ObjToPairs([v \in DOMAIN variants |-> ObjToPairs(variants[v])])
DumpModel(model) ==
    ObjToPairs([k \in DOMAIN model |->
                  IF k = "variants" THEN DumpVariants(model[k]) ELSE model[k]])
DumpModels(models) == ObjToPairs([n \in DOMAIN models |-> DumpModel(models[n])])
DumpDocument(d) ==
    [kind |-> "json",
     val |-> {<<"info", ObjToPairs(d.info)>>,
              <<"labels", DumpLabels(d.labels)>>,
              <<"models", DumpModels(d.models)>>}]
DumpRecord(m_rec) ==
    [kind |-> "json",
     val |-> {<<"model", DumpModel(m_rec.model)>>,
              <<"labels", DumpLabels(m_rec.labels)>>}]

\* json.loads of bytes decodes them first: bytes that are no UTF-8 raise
\* UnicodeDecodeError.
UnicodeDecodeError(text) == text.kind = "bytes"

\* json.load / json.loads: raises JSONDecodeError on text that is not JSON.
JsonDecodeError(text) == text.kind = "text"
LoadLabels(v) == LET o == PairsToObj(v) IN [k \in DOMAIN o |-> PairsToObj(o[k])]
LoadVariants(v) == LET o == PairsToObj(v) IN [k \in DOMAIN o |-> PairsToObj(o[k])]
LoadModel(v) ==
    LET o == PairsToObj(v)
    IN  [k \in DOMAIN o |-> IF k = "variants" THEN LoadVariants(o[k]) ELSE o[k]]
LoadModels(v) == LET o == PairsToObj(v) IN [n \in DOMAIN o |-> LoadModel(o[n])]
LoadValue(v) ==
    LET o == PairsToObj(v)
    IN  [k \in DOMAIN o |->
           CASE k = "info" -> PairsToObj(o[k])
             [] k = "labels" -> LoadLabels(o[k])
             [] k = "models" -> LoadModels(o[k])
             [] k = "model" -> LoadModel(o[k])
             [] OTHER -> o[k]]
json_load(text) == LoadValue(text.val)

(***************************************************************************)
(* Documents                                                               *)
(***************************************************************************)
\* lbw.version and lbw.version_info of the SDK in use.
SdkInfo == [sdk_version |-> "1.0.43", sdk_major |-> 1, sdk_minor |-> 0, sdk_micro |-> 43]

EmptyDict == <<>>

\* The document ThicketDB.initialize builds.
InitialDocument ==
    [info |-> [sdk_version |-> SdkInfo.sdk_version,
               sdk_major |-> SdkInfo.sdk_major,
               sdk_minor |-> SdkInfo.sdk_minor,
               sdk_micro |-> SdkInfo.sdk_micro,
               schema_version |-> SCHEMA_VERSION],
     labels |-> EmptyDict,
     models |-> EmptyDict]

\* A document an earlier run stored: one plant that is no longer among the
\* asset files, under schema version v.
StoredDocument(v, populated) ==
    [info |-> [sdk_version |-> "1.0.40", sdk_major |-> 1, sdk_minor |-> 0,
               sdk_micro |-> 40, schema_version |-> v],
     labels |-> IF populated
                THEN ("Fir" :> (("en_US" :> "Fir") @@ ("de_DE" :> "Tanne")))
                     @@ ("01adult" :> ("en_US" :> "grown"))
                ELSE EmptyDict,
     models |-> IF populated
                THEN ("Fir" :> [name |-> "Fir", filepath |-> "fir.lbw.gz",
                                md5 |-> "md5:4e", default_variant |-> "01adult",
                                preview |-> "",
                                variants |-> ("01adult" :>
                                    [index |-> 0, seasons |-> <<"summer">>,
                                     default_season |-> "summer", preview |-> ""])])
                ELSE EmptyDict]

\* What the database file can hold when the program starts: nothing, text
\* that is not JSON, JSON that is no document, or a stored document.
NoFile == [kind |-> "absent", val |-> {}]
NotJson == {[kind |-> "text", val |-> "{\"info\": "]}
JsonNoDocument == [kind |-> "json", val |-> {}]
InitialFiles ==
    {NoFile, JsonNoDocument} \cup NotJson
    \cup {DumpDocument(StoredDocument(v, p)) : v \in 1..MaxSchema, p \in BOOLEAN}

\* The value of the attribute _db while the object has none.
NoDocument == [info |-> EmptyDict, labels |-> EmptyDict, models |-> EmptyDict]

(***************************************************************************)
(* State                                                                   *)
(***************************************************************************)
\* The lists glob.glob can return: the asset files, in any order.
RECURSIVE FileLists(_)
FileLists(n) ==
    IF n = 0 THEN {<<>>}
    ELSE LET shorter == FileLists(n - 1)
         IN  shorter \cup {Append(l, x) : l \in {s \in shorter : Len(s) = n - 1},
                                          x \in AssetFiles}
GlobResults == {l \in FileLists(MaxFiles) : \A i, j \in 1..Len(l) : i # j => l[i] # l[j]}

VARIABLES
    models_dir,    \* what glob.glob finds below the models directory
    disk,          \* the content of the file db_filename
    opened,        \* the caller holds a ThicketDB object
    has_db,        \* the object has its attribute _db
    db,            \* self._db
    call,          \* the last call that can change the object or the file: [op, arg]
    raised,        \* the exception that call raised to the caller, or "none"
    critical_log,  \* number of logger.critical records of ThicketDB.__init__
    pc,            \* where build() stands: idle, loop, communicate
    model_files,   \* build(): the files not yet handed to a worker
    num_jobs,      \* build(): the concurrency cap
    jobs,          \* build(): the deque of spawned workers
    job,           \* build(): the worker popped from jobs, or NoJob
    f,             \* build(): the file last popped from model_files
    error_log,     \* the file named by each "JSONDecodeError while parsing"
    decode_failed, \* the file of each worker whose output did not decode
    spawned,       \* the files in the order their workers were spawned
    collected,     \* the files in the order their workers were collected
    cli,           \* the last run of the command line: [ran, argv, usage, status, raised]
    ready          \* thicket_status.ready of the add-on

vars == <<models_dir, disk, opened, has_db, db, call, raised, critical_log, pc, model_files,
          num_jobs, jobs, job, f, error_log, decode_failed, spawned, collected,
          cli, ready>>

\* What no operation of a ThicketDB object assigns: the glob result, the
\* outcome of a command-line run and the add-on's status.
env_vars == <<models_dir, cli, ready>>

build_vars == <<pc, model_files, num_jobs, jobs, job, f, error_log,
                decode_failed, spawned, collected>>

NoJob == [file |-> "", exited |-> FALSE]

\* No command-line run has ended.
NoRun == [ran |-> FALSE,
          argv |-> [cmd |-> "", d |-> FALSE, p |-> FALSE, f |-> FALSE,
                    s |-> FALSE, t |-> FALSE],
          usage |-> FALSE, status |-> 0, raised |-> "none"]

Init ==
    /\ models_dir \in GlobResults
    /\ disk \in InitialFiles
    /\ opened = FALSE
    /\ has_db = FALSE
    /\ db = NoDocument
    /\ call = [op |-> "none", arg |-> ""]
    /\ raised = "none"
    /\ critical_log = 0
    /\ pc = "idle"
    /\ model_files = <<>>
    /\ num_jobs = 0
    /\ jobs = <<>>
    /\ job = NoJob
    /\ f = ""
    /\ error_log = <<>>
    /\ decode_failed = <<>>
    /\ cli = NoRun
    /\ ready = FALSE
    /\ spawned = <<>>
    /\ collected = <<>>

(***************************************************************************)
(* ThicketDB.__init__, initialize, save                                    *)
(***************************************************************************)
\* save(): open(db_filename, "w") and json.dump(self._db, f).
\* save() that writes the document without its label store.
saveWithoutLabels(d) == DumpDocument([d EXCEPT !.labels = EmptyDict])

save(d) == DumpDocument(d)

\* The stored schema version of a file that holds a document.
IsDocumentFile(file) ==
    /\ file.kind = "json"
    /\ "info" \in DOMAIN json_load(file)
    /\ "schema_version" \in DOMAIN json_load(file).info
StoredVersion(file) == json_load(file).info.schema_version

\* The constructor with the version test != for <.
OpenResultEqualOnly(file, create) ==
    IF file.kind = "absent"
    THEN IF create
         THEN [raised |-> "none", has_db |-> TRUE, db |-> InitialDocument,
               disk |-> save(InitialDocument), critical |-> 0]
         ELSE [raised |-> "FileNotFoundError", has_db |-> FALSE, db |-> NoDocument,
               disk |-> file, critical |-> 0]
    ELSE IF JsonDecodeError(file)
    THEN [raised |-> "none", has_db |-> FALSE, db |-> NoDocument,
          disk |-> file, critical |-> 1]
    ELSE IF ~IsDocumentFile(file)
    THEN [raised |-> "KeyError", has_db |-> FALSE, db |-> NoDocument,
          disk |-> file, critical |-> 0]
    ELSE IF StoredVersion(file) # SCHEMA_VERSION
    THEN [raised |-> "ThicketDBOldSchemaError", has_db |-> FALSE,
          db |-> NoDocument, disk |-> file, critical |-> 0]
    ELSE [raised |-> "none", has_db |-> TRUE, db |-> json_load(file),
          disk |-> file, critical |-> 0]

\* The constructor with the create branch also taken for an old schema.
OpenResultRecreates(file, create) ==
    IF file.kind = "absent" \/ (IsDocumentFile(file) /\ create
                                   /\ StoredVersion(file) < SCHEMA_VERSION)
    THEN IF create
         THEN [raised |-> "none", has_db |-> TRUE, db |-> InitialDocument,
               disk |-> save(InitialDocument), critical |-> 0]
         ELSE [raised |-> "FileNotFoundError", has_db |-> FALSE, db |-> NoDocument,
               disk |-> file, critical |-> 0]
    ELSE IF JsonDecodeError(file)
    THEN [raised |-> "none", has_db |-> FALSE, db |-> NoDocument,
          disk |-> file, critical |-> 1]
    ELSE IF ~IsDocumentFile(file)
    THEN [raised |-> "KeyError", has_db |-> FALSE, db |-> NoDocument,
          disk |-> file, critical |-> 0]
    ELSE IF StoredVersion(file) < SCHEMA_VERSION
    THEN [raised |-> "ThicketDBOldSchemaError", has_db |-> FALSE,
          db |-> NoDocument, disk |-> file, critical |-> 0]
    ELSE [raised |-> "none", has_db |-> TRUE, db |-> json_load(file),
          disk |-> file, critical |-> 0]

\* The constructor with the create branch not saving the new document.
OpenResultNoSave(file, create) ==
    IF file.kind = "absent"
    THEN IF create
         THEN [raised |-> "none", has_db |-> TRUE, db |-> InitialDocument,
               disk |-> file, critical |-> 0]
         ELSE [raised |-> "FileNotFoundError", has_db |-> FALSE, db |-> NoDocument,
               disk |-> file, critical |-> 0]
    ELSE IF JsonDecodeError(file)
    THEN [raised |-> "none", has_db |-> FALSE, db |-> NoDocument,
          disk |-> file, critical |-> 1]
    ELSE IF ~IsDocumentFile(file)
    THEN [raised |-> "KeyError", has_db |-> FALSE, db |-> NoDocument,
          disk |-> file, critical |-> 0]
    ELSE IF StoredVersion(file) < SCHEMA_VERSION
    THEN [raised |-> "ThicketDBOldSchemaError", has_db |-> FALSE,
          db |-> NoDocument, disk |-> file, critical |-> 0]
    ELSE [raised |-> "none", has_db |-> TRUE, db |-> json_load(file),
          disk |-> file, critical |-> 0]

\* The outcome of ThicketDB(db_filename, locales, python, create) on the file
\* content file: the exception raised ("none": the constructor returns an
\* object), whether the object has _db, its value, and the file afterwards.
OpenResult(file, create) ==
    IF file.kind = "absent"
    THEN IF create
         THEN [raised |-> "none", has_db |-> TRUE, db |-> InitialDocument,
               disk |-> save(InitialDocument), critical |-> 0]
         ELSE [raised |-> "FileNotFoundError", has_db |-> FALSE, db |-> NoDocument,
               disk |-> file, critical |-> 0]
    ELSE IF JsonDecodeError(file)
    THEN [raised |-> "none", has_db |-> FALSE, db |-> NoDocument,
          disk |-> file, critical |-> 1]
    ELSE LET d == json_load(file)
         IN  IF "info" \notin DOMAIN d THEN
                 [raised |-> "KeyError", has_db |-> FALSE, db |-> NoDocument,
                  disk |-> file, critical |-> 0]
             ELSE IF "schema_version" \notin DOMAIN d.info THEN
                 [raised |-> "KeyError", has_db |-> FALSE, db |-> NoDocument,
                  disk |-> file, critical |-> 0]
             ELSE IF d.info.schema_version < SCHEMA_VERSION THEN
                 [raised |-> "ThicketDBOldSchemaError", has_db |-> FALSE,
                  db |-> NoDocument, disk |-> file, critical |-> 0]
             ELSE [raised |-> "none", has_db |-> TRUE, db |-> d,
                   disk |-> file, critical |-> 0]

\* The caller constructs a ThicketDB.  A constructor that raises leaves the
\* caller without an object.
Open(create) ==
    /\ pc = "idle"
    /\ ~opened
    /\ LET r == OpenResult(disk, create)
       IN  /\ raised' = r.raised
           /\ opened' = (r.raised = "none")
           /\ has_db' = r.has_db
           /\ db' = r.db
           /\ disk' = r.disk
           /\ critical_log' = r.critical
    /\ call' = [op |-> "open", arg |-> IF create THEN "create" ELSE ""]
    /\ UNCHANGED build_vars
    /\ UNCHANGED env_vars

\* The caller drops its object.
Close ==
    /\ pc = "idle"
    /\ opened
    /\ opened' = FALSE
    /\ has_db' = FALSE
    /\ db' = NoDocument
    /\ call' = [op |-> "close", arg |-> ""]
    /\ raised' = "none"
    /\ UNCHANGED <<disk, critical_log>>
    /\ UNCHANGED build_vars
    /\ UNCHANGED env_vars

(***************************************************************************)
(* ThicketDB.save called by the user of the object                         *)
(***************************************************************************)
\* What open(self._db_filename, "w") leaves before json.dump writes: an
\* empty file.
Truncated == [kind |-> "text", val |-> ""]

\* The file a save() leaves that ends before json.dump has written the whole
\* document (the write fails, the process is stopped): nothing yet, or the
\* first part of the text.
PartialFiles == {Truncated} \cup NotJson

\* save(): the file is opened for writing first; self._db is read after that
\* and is missing on an object constructed from a file that is not JSON.
SaveResult(loaded, d) ==
    IF loaded THEN [raised |-> "none", disk |-> save(d)]
    ELSE [raised |-> "AttributeError", disk |-> Truncated]

Save ==
    /\ pc = "idle"
    /\ opened
    /\ LET r == SaveResult(has_db, db)
       IN  /\ raised' = r.raised
           /\ disk' = r.disk
    /\ call' = [op |-> "save", arg |-> ""]
    /\ UNCHANGED <<opened, has_db, db, critical_log>>
    /\ UNCHANGED build_vars
    /\ UNCHANGED env_vars

\* A save() that ends partway through the write.
SaveInterrupted(partial) ==
    /\ pc = "idle"
    /\ opened
    /\ has_db
    /\ disk' = partial
    /\ raised' = "OSError"
    /\ call' = [op |-> "save", arg |-> "interrupted"]
    /\ UNCHANGED <<opened, has_db, db, critical_log>>
    /\ UNCHANGED build_vars
    /\ UNCHANGED env_vars

(***************************************************************************)
(* ThicketDB.update_labels, add_model                                      *)
(***************************************************************************)
\* self._db["labels"].update(labels)
update_labels(d, labels) == [d EXCEPT !.labels = DictUpdate(d.labels, labels)]

\* add_model(filepath): the document afterwards and the exception raised.
\* parse_model returns a dict with the keys "model" and "labels"; line 207
\* reads its key "name".
AddModelResult(d, filepath) ==
    LET m_rec == parse_model(filepath)
    IN  IF "name" \notin DOMAIN m_rec
        THEN [raised |-> "KeyError", db |-> d]
        ELSE [raised |-> "none",
              db |-> update_labels(
                        [d EXCEPT !.models = DictSet(d.models, m_rec["name"], m_rec.model)],
                        m_rec.labels)]

add_model(filepath) ==
    /\ pc = "idle"
    /\ opened
    /\ LET r == AddModelResult(db, filepath)
       IN  /\ raised' = r.raised
           /\ db' = IF has_db THEN r.db ELSE db
    /\ call' = [op |-> "add_model", arg |-> ""]
    /\ UNCHANGED <<disk, opened, has_db, critical_log>>
    /\ UNCHANGED build_vars
    /\ UNCHANGED env_vars

(***************************************************************************)
(* Queries: get_label, get_translation_dict, model_count, get_model and    *)
(* the views DBSeason, DBVariant, DBModel.  A query returns                *)
(* [raised, value]; value is a set, empty for None and for a raise, else   *)
(* holding the one value returned.                                         *)
(***************************************************************************)
\* Python's None, as an argument.
None == "None"

\* bool(x) of an optional string argument.
Truthy(x) == x # None /\ x # ""

defaultLocale == "en_US"

\* Lines 182-188 on an object that has its document.
get_label(d, key) ==
    IF key \in DOMAIN d.labels /\ defaultLocale \in DOMAIN d.labels[key]
    THEN d.labels[key][defaultLocale]
    ELSE key

\* get_label(key) on the object: self._db is read first.
GetLabelResult(loaded, d, key) ==
    IF ~loaded THEN [raised |-> "AttributeError", value |-> {}]
    ELSE [raised |-> "none", value |-> {get_label(d, key)}]

\* Every <<label key, locale>> pair of the store, the empty strings too.
AllLabelPairs(d) ==
    UNION {{<<key, lang>> : lang \in DOMAIN d.labels[key]} : key \in DOMAIN d.labels}

\* The <<label key, locale>> pairs get_translation_dict writes an entry for:
\* those with a non-empty string (if trans).
TranslatedPairs(d) ==
    {e \in UNION {{<<key, lang>> : lang \in DOMAIN d.labels[key]} : key \in DOMAIN d.labels} :
        d.labels[e[1]][e[2]] # ""}

\* The key of the entry written for a label key: ('*', self.get_label(key)).
MsgKey(d, key) == <<"*", get_label(d, key)>>

\* Lines 173-179: locale -> {('*', label) -> string}.  Label keys with the same
\* entry key write the same entry and the last one in the dict's order stays;
\* that order is not part of the document here, CHOOSE takes one of them.
get_translation_dict(d) ==
    LET pairs == TranslatedPairs(d)
    IN  [lang \in {e[2] : e \in pairs} |->
            [msg \in {MsgKey(d, e[1]) : e \in {x \in pairs : x[2] = lang}} |->
                d.labels[CHOOSE key \in DOMAIN d.labels :
                            <<key, lang>> \in pairs /\ MsgKey(d, key) = msg][lang]]]

GetTranslationDictResult(loaded, d) ==
    IF ~loaded THEN [raised |-> "AttributeError", value |-> {}]
    ELSE [raised |-> "none", value |-> {get_translation_dict(d)}]

\* len(self._db["models"])
model_count(d) == Cardinality(DOMAIN d.models)

ModelCountResult(loaded, d) ==
    IF ~loaded THEN [raised |-> "AttributeError", value |-> {}]
    ELSE [raised |-> "none", value |-> {model_count(d)}]

\* DBSeason(db, name)
DBSeason(d, name) == [name |-> name, label |-> get_label(d, name)]

\* DBVariant(db, name, v_rec, model_preview): the season views in the order
\* of v_rec["seasons"], the default season's view, and the model's preview
\* in place of an empty one.
DBVariant(d, name, v_rec, model_preview) ==
    [name |-> name,
     label |-> get_label(d, name),
     seasons |-> [i \in 1..Len(v_rec.seasons) |-> DBSeason(d, v_rec.seasons[i])],
     default_season |-> DBSeason(d, v_rec.default_season),
     preview |-> IF v_rec.preview = "" THEN model_preview ELSE v_rec.preview]

\* DBVariant.get_season(name): the first season of that name, else the default.
get_season(variant, name) ==
    IF name # None /\ \E i \in 1..Len(variant.seasons) : variant.seasons[i].name = name
    THEN variant.seasons[CHOOSE i \in 1..Len(variant.seasons) :
                            /\ variant.seasons[i].name = name
                            /\ \A j \in 1..(i - 1) : variant.seasons[j].name # name]
    ELSE variant.default_season

\* The keys of m_rec["variants"] in the dict's order, which is the order of
\* the index parse_model numbers them with (lines 309, 323).
VariantNames(m_rec) ==
    [i \in 1..Cardinality(DOMAIN m_rec.variants) |->
        CHOOSE v \in DOMAIN m_rec.variants : m_rec.variants[v].index = i - 1]

\* DBModel(db, name) raises KeyError at line 85 when the record's
\* default_variant is no key of its variants.
DBModelRaises(d, name) ==
    d.models[name].default_variant \notin DOMAIN d.models[name].variants

DBModel(d, name) ==
    LET m_rec == d.models[name]
        names == VariantNames(m_rec)
    IN  [name |-> name,
         md5 |-> m_rec.md5,
         filepath |-> m_rec.filepath,
         label |-> get_label(d, name),
         variants |-> [i \in 1..Len(names) |->
                          DBVariant(d, names[i], m_rec.variants[names[i]], m_rec.preview)],
         default_variant |-> DBVariant(d, m_rec.default_variant,
                                       m_rec.variants[m_rec.default_variant],
                                       m_rec.preview),
         preview |-> m_rec.preview]

\* get_variant that looks the name up only.
get_variant_no_default(model, name) ==
    IF \E i \in 1..Len(model.variants) : model.variants[i].name = name
    THEN model.variants[CHOOSE i \in 1..Len(model.variants) :
                           /\ model.variants[i].name = name
                           /\ \A j \in 1..(i - 1) : model.variants[j].name # name]
    ELSE model.variants[1]

\* DBModel.get_variant(name): the first variant of that name, else the default.
get_variant(model, name) ==
    IF name # None /\ \E i \in 1..Len(model.variants) : model.variants[i].name = name
    THEN model.variants[CHOOSE i \in 1..Len(model.variants) :
                           /\ model.variants[i].name = name
                           /\ \A j \in 1..(i - 1) : model.variants[j].name # name]
    ELSE model.default_variant

\* get_model(filepath, name), lines 191-203.  The test of line 191 is
\* bool(name), the test of line 195 is name is None; a record found by its
\* filepath is the last such record in the dict's order (one record at most
\* has a given filepath in the documents build() makes).  An object without
\* its document raises AttributeError where self._db is read.
get_model(loaded, d, filepath, name) ==
    IF ~loaded
    THEN IF Truthy(name) \/ (name = None /\ Truthy(filepath))
         THEN [raised |-> "AttributeError", value |-> {}]
         ELSE [raised |-> "none", value |-> {}]
    ELSE LET name1 == IF Truthy(name) /\ name \notin DOMAIN d.models THEN None ELSE name
             matches == {n \in DOMAIN d.models : d.models[n].filepath = filepath}
             name2 == IF name1 = None /\ Truthy(filepath) /\ matches # {}
                      THEN CHOOSE n \in matches : TRUE
                      ELSE name1
         IN  IF ~Truthy(name2) THEN [raised |-> "none", value |-> {}]
             ELSE IF DBModelRaises(d, name2) THEN [raised |-> "KeyError", value |-> {}]
             ELSE [raised |-> "none", value |-> {DBModel(d, name2)}]

\* The model names a document can hold, in the order Python's str comparison
\* gives them (the key of the sort at line 103).
NameOrder == <<"Elm", "Fir", "Oak", "Pine">>

\* self._items after the sort of line 103, as names: the keys of
\* db._db["models"] by ascending name (the keys of a dict are distinct, so
\* the sorted list does not depend on the order they were appended in).
SortedNames(d) == SelectSeq(NameOrder, LAMBDA name : name \in DOMAIN d.models)

\* DBIter(db): a view of every stored model, sorted by name, and an index of
\* its own set to 0.  DBModel raising for one record raises out of the
\* constructor; an object without its document raises AttributeError.
DBIter(loaded, d) ==
    IF ~loaded
    THEN [raised |-> "AttributeError", items |-> << >>, index |-> 0]
    ELSE IF \E name \in DOMAIN d.models : DBModelRaises(d, name)
    THEN [raised |-> "KeyError", items |-> << >>, index |-> 0]
    ELSE LET names == SortedNames(d)
         IN  [raised |-> "none",
              items |-> [i \in 1..Len(names) |-> DBModel(d, names[i])],
              index |-> 0]

\* DBIter.__next__: the item at the index and the iterator moved past it, or
\* StopIteration.
next(it) ==
    IF it.index < Len(it.items)
    THEN [raised |-> "none", value |-> {it.items[it.index + 1]},
          it |-> [it EXCEPT !.index = @ + 1]]
    ELSE [raised |-> "StopIteration", value |-> {}, it |-> it]

\* What "for model in it" yields: the items __next__ returns until it raises
\* StopIteration.
RECURSIVE ForEach(_)
ForEach(it) ==
    LET r == next(it)
    IN  IF r.raised = "StopIteration" THEN << >>
        ELSE <<CHOOSE item \in r.value : TRUE>> \o ForEach(r.it)

\* "for model in db" (read(), populate_previews()): __iter__ makes a new
\* DBIter and the loop drains it.
IterateResult(loaded, d) ==
    LET it == DBIter(loaded, d)
    IN  IF it.raised # "none" THEN [raised |-> it.raised, value |-> {}]
        ELSE [raised |-> "none", value |-> {ForEach(it)}]

\* The arguments the queries are called with: None, the empty string, names
\* and paths of assets, of the stored document and of nothing.
QueryNames == {None, "", "Oak", "Elm", "Ash"}
QueryFilepaths == {None, "oak.lbw.gz", "elm.lbw.gz", "ash.lbw.gz"}
QueryKeys == {"Oak", "Elm", "01adult", "Ash"}
QueryVariants == {None, "01young", "99old"}
QuerySeasons == {None, "spring", "winter"}

\* A query hands its result, a value or an exception, to the caller; it
\* assigns nothing to the object, the file or build()'s locals.
Query(result) ==
    /\ pc = "idle"
    /\ opened
    /\ result.raised \in {"none", "KeyError", "AttributeError"}
    /\ UNCHANGED vars

\* get_label that stores a key it does not find (a setdefault in place of
\* the lookup).
GetLabelStoresKey(key) ==
    /\ pc = "idle"
    /\ opened
    /\ has_db
    /\ db' = [db EXCEPT !.labels =
                 IF key \in DOMAIN db.labels THEN db.labels
                 ELSE DictSet(db.labels, key, EmptyDict)]
    /\ UNCHANGED <<disk, opened, has_db, call, raised, critical_log>>
    /\ UNCHANGED build_vars
    /\ UNCHANGED env_vars

GetLabel(key) == Query(GetLabelResult(has_db, db, key))

GetTranslationDict == Query(GetTranslationDictResult(has_db, db))

ModelCount == Query(ModelCountResult(has_db, db))

GetModel(filepath, name) == Query(get_model(has_db, db, filepath, name))

Iterate == Query(IterateResult(has_db, db))

\* model.get_variant(vname) and model.get_variant(vname).get_season(sname)
\* on the view get_model(name=name) returned.
GetVariant(name, vname) ==
    LET r == get_model(has_db, db, None, name)
    IN  /\ r.value # {}
        /\ Query([raised |-> "none",
                  value |-> {get_variant(model, vname) : model \in r.value}])

GetSeason(name, vname, sname) ==
    LET r == get_model(has_db, db, None, name)
    IN  /\ r.value # {}
        /\ Query([raised |-> "none",
                  value |-> {get_season(get_variant(model, vname), sname) :
                                model \in r.value}])

(***************************************************************************)
(* ThicketDB.build                                                         *)
(***************************************************************************)
\* What a worker process (parse_model_json in a subprocess) can have written
\* to its stdout when it ends: the record of its file, nothing, text that is
\* not JSON, bytes that are no text, or JSON that is not the whole record.
WorkerOutputs(file) ==
    LET rec == DumpRecord(parse_model(file))
    IN  {rec,
         [kind |-> "text", val |-> ""],
         [kind |-> "text", val |-> "Traceback"],
         [kind |-> "bytes", val |-> "\\x80"],
         [kind |-> "json", val |-> {m \in rec.val : m[1] # "model"}]}

\* The cap without the fallback: nothing where the count is undetectable.
NumJobsNoFallback(cpu_count) == cpu_count

\* num_jobs = os.cpu_count(), or 4 when that is None (0 here).
NumJobs(cpu_count) == IF cpu_count = 0 THEN DEFAULT_NUM_JOBS ELSE cpu_count

\* build() that starts without initialize(): the document in memory stays.
BuildStartKeepsDocument(files, cpu_count) ==
    /\ pc = "idle"
    /\ opened
    /\ db' = IF has_db THEN db ELSE InitialDocument
    /\ has_db' = TRUE
    /\ model_files' = files
    /\ num_jobs' = NumJobs(cpu_count)
    /\ jobs' = <<>>
    /\ job' = NoJob
    /\ f' = ""
    /\ error_log' = <<>>
    /\ decode_failed' = <<>>
    /\ spawned' = <<>>
    /\ collected' = <<>>
    /\ pc' = "loop"
    /\ call' = [op |-> "build", arg |-> ""]
    /\ raised' = "none"
    /\ UNCHANGED <<disk, opened, critical_log>>
    /\ UNCHANGED env_vars

\* Lines 214-226: initialize(), the glob and the cap.
BuildStart(files, cpu_count) ==
    /\ pc = "idle"
    /\ opened
    /\ db' = InitialDocument
    /\ has_db' = TRUE
    /\ model_files' = files
    /\ num_jobs' = NumJobs(cpu_count)
    /\ jobs' = <<>>
    /\ job' = NoJob
    /\ f' = ""
    /\ error_log' = <<>>
    /\ decode_failed' = <<>>
    /\ spawned' = <<>>
    /\ collected' = <<>>
    /\ pc' = "loop"
    /\ call' = [op |-> "build", arg |-> ""]
    /\ raised' = "none"
    /\ UNCHANGED <<disk, opened, critical_log>>
    /\ UNCHANGED env_vars

\* The guard of the inner loop with <= for <.
CanSpawnOffByOne == Len(jobs) <= num_jobs /\ Len(model_files) > 0

\* The guard of the inner loop spawning only into an empty deque.
CanSpawnOneAtATime == Len(jobs) < 1 /\ Len(model_files) > 0

\* The guard of the inner loop (line 229).
CanSpawn == Len(jobs) < num_jobs /\ Len(model_files) > 0

\* The spawn step taking the first pending file (model_files.pop(0)).
SpawnFromFront ==
    /\ pc = "loop"
    /\ CanSpawn
    /\ f' = Head(model_files)
    /\ model_files' = Tail(model_files)
    /\ jobs' = Append(jobs, [file |-> f', exited |-> FALSE])
    /\ spawned' = Append(spawned, f')
    /\ UNCHANGED <<disk, opened, has_db, db, call, raised, critical_log, pc,
                   num_jobs, job, error_log, decode_failed, collected>>
    /\ UNCHANGED env_vars

\* Lines 230-234: pop the last file and spawn its worker.
Spawn ==
    /\ pc = "loop"
    /\ CanSpawn
    /\ f' = model_files[Len(model_files)]
    /\ model_files' = SubSeq(model_files, 1, Len(model_files) - 1)
    /\ jobs' = Append(jobs, [file |-> f', exited |-> FALSE])
    /\ spawned' = Append(spawned, f')
    /\ UNCHANGED <<disk, opened, has_db, db, call, raised, critical_log, pc,
                   num_jobs, job, error_log, decode_failed, collected>>
    /\ UNCHANGED env_vars

\* build() is left, by return or by an exception: its local variables are
\* gone.
BuildLocalsGone ==
    /\ pc' = "idle"
    /\ model_files' = <<>>
    /\ num_jobs' = 0
    /\ jobs' = <<>>
    /\ job' = NoJob
    /\ f' = ""
    /\ error_log' = <<>>
    /\ decode_failed' = <<>>
    /\ spawned' = <<>>
    /\ collected' = <<>>

\* deque.pop(): the newest element and the rest.
pop(q) == <<q[Len(q)], SubSeq(q, 1, Len(q) - 1)>>

\* deque.popleft(): the oldest element and the rest.
popleft(q) == <<Head(q), Tail(q)>>

\* Line 237: job = jobs.popleft(); an empty deque raises IndexError.
PopLeft ==
    /\ pc = "loop"
    /\ ~CanSpawn
    /\ Len(model_files) > 0 \/ Len(jobs) > 0
    /\ IF Len(jobs) = 0
       THEN /\ raised' = "IndexError"
            /\ BuildLocalsGone
       ELSE /\ job' = popleft(jobs)[1]
            /\ jobs' = popleft(jobs)[2]
            /\ pc' = "communicate"
            /\ UNCHANGED <<raised, model_files, num_jobs, f, error_log,
                           decode_failed, spawned, collected>>
    /\ UNCHANGED <<disk, opened, has_db, db, call, critical_log>>
    /\ UNCHANGED env_vars

\* A worker process ends.  Workers end in any order, whether still in the
\* deque or already awaited; what a worker wrote is read by communicate().
ExitJob(j) == [j EXCEPT !.exited = TRUE]

WorkerExit ==
    /\ pc \in {"loop", "communicate"}
    /\ \/ \E i \in 1..Len(jobs) :
            /\ ~jobs[i].exited
            /\ jobs' = [jobs EXCEPT ![i] = ExitJob(jobs[i])]
            /\ UNCHANGED job
       \/ /\ pc = "communicate"
          /\ ~job.exited
          /\ job' = ExitJob(job)
          /\ UNCHANGED jobs
    /\ UNCHANGED <<disk, opened, has_db, db, call, raised, critical_log, pc,
                   model_files, num_jobs, f, error_log, decode_failed, spawned,
                   collected>>
    /\ UNCHANGED env_vars

\* The merge with the model stored under its default_variant instead of its
\* name.
MergeResultWrongKey(d, outs) ==
    IF UnicodeDecodeError(outs)
    THEN [db |-> d, raised |-> "UnicodeDecodeError", decode_error |-> FALSE]
    ELSE IF JsonDecodeError(outs)
    THEN [db |-> d, raised |-> "none", decode_error |-> TRUE]
    ELSE LET m_rec == json_load(outs)
         IN  IF "model" \notin DOMAIN m_rec \/ "labels" \notin DOMAIN m_rec
             THEN [db |-> d, raised |-> "KeyError", decode_error |-> FALSE]
             ELSE [db |-> update_labels(
                             [d EXCEPT !.models = DictSet(d.models,
                                 m_rec.model.default_variant, m_rec.model)],
                             m_rec.labels),
                   raised |-> "none", decode_error |-> FALSE]

\* Lines 239-245 on the output outs of the awaited worker: the document
\* afterwards, the exception that leaves build() ("none": the loop goes on)
\* and whether the JSONDecodeError handler ran.
MergeResult(d, outs) ==
    IF UnicodeDecodeError(outs)
    THEN [db |-> d, raised |-> "UnicodeDecodeError", decode_error |-> FALSE]
    ELSE IF JsonDecodeError(outs)
    THEN [db |-> d, raised |-> "none", decode_error |-> TRUE]
    ELSE LET m_rec == json_load(outs)
         IN  IF "model" \notin DOMAIN m_rec
             THEN [db |-> d, raised |-> "KeyError", decode_error |-> FALSE]
             ELSE IF "name" \notin DOMAIN m_rec.model
             THEN [db |-> d, raised |-> "KeyError", decode_error |-> FALSE]
             ELSE LET d1 == [d EXCEPT !.models =
                                DictSet(d.models, m_rec.model.name, m_rec.model)]
                  IN  IF "labels" \notin DOMAIN m_rec
                      THEN [db |-> d1, raised |-> "KeyError", decode_error |-> FALSE]
                      ELSE [db |-> update_labels(d1, m_rec.labels),
                            raised |-> "none", decode_error |-> FALSE]

\* The file the handler of line 245 names: the loop variable f.
LoggedFile == f

\* Lines 238-245: job.communicate() returns outs once the worker has ended;
\* outs is decoded and merged.  An exception other than JSONDecodeError
\* leaves build().
Collect(outs) ==
    /\ pc = "communicate"
    /\ job.exited
    /\ LET r == MergeResult(db, outs)
       IN  /\ db' = r.db
           /\ raised' = r.raised
           /\ IF r.raised = "none"
              THEN /\ pc' = "loop"
                   /\ error_log' = IF r.decode_error
                                   THEN Append(error_log, LoggedFile)
                                   ELSE error_log
                   /\ decode_failed' = IF r.decode_error
                                       THEN Append(decode_failed, job.file)
                                       ELSE decode_failed
                   /\ collected' = Append(collected, job.file)
                   /\ job' = NoJob
                   /\ UNCHANGED <<model_files, num_jobs, jobs, f, spawned>>
              ELSE BuildLocalsGone
    /\ UNCHANGED <<disk, opened, has_db, call, critical_log>>
    /\ UNCHANGED env_vars

\* Lines 247-251, after the loop: the bookkeeping errors logger.error
\* records, one when files are left and one when jobs are left.
BookkeepingErrors(files, js) ==
    (IF Len(files) > 0 THEN {"model files remaining"} ELSE {})
        \cup (IF Len(js) > 0 THEN {"jobs still running"} ELSE {})

\* The end of a loop that runs while files are pending only ("and" for the
\* "or" of line 227 ends it likewise once the files are spawned).
FinishWhileFilesPending ==
    /\ pc = "loop"
    /\ ~(Len(model_files) > 0)
    /\ disk' = save(db)
    /\ BuildLocalsGone
    /\ UNCHANGED <<opened, has_db, db, call, raised, critical_log>>
    /\ UNCHANGED env_vars

\* Lines 247-254: the loop has ended; the document is saved and build()
\* returns.
Finish ==
    /\ pc = "loop"
    /\ ~(Len(model_files) > 0 \/ Len(jobs) > 0)
    /\ disk' = save(db)
    /\ BuildLocalsGone
    /\ UNCHANGED <<opened, has_db, db, call, raised, critical_log>>
    /\ UNCHANGED env_vars

(***************************************************************************)
(* The command line: main() run as a script                                *)
(***************************************************************************)
\* The choices of the positional argument cmd.
Commands == {"read", "build", "parse_model"}

\* A parsed command line: the command and, for each of -d, -p, -f, -s and -t,
\* whether it was given.
Argv == [cmd : Commands, d : BOOLEAN, p : BOOLEAN, f : BOOLEAN, s : BOOLEAN,
         t : BOOLEAN]

\* main() with the arguments args.  lbw_bound: the import of laubwerk at the
\* top of the module succeeded, so the global lbw is bound; sdk_at_s: the
\* import of line 386 finds the SDK under the path given with -s.  The
\* result is the exception main raises ("none": it returns), the value it
\* returns and whether print_help ran.
\*   - ThicketDB(args.d, create=...) of lines 390 and 393 passes no locales:
\*     the constructor call raises TypeError;
\*   - lines 392 and 395 read the global lbw: NameError when it is unbound;
\*   - parse_model_json(args.f, None) iterates None in retrieve_labels.
main(args, lbw_bound, sdk_at_s) ==
    LET lbw == lbw_bound \/ args.s
    IN  IF args.s /\ ~sdk_at_s
        THEN [raised |-> "ModuleNotFoundError", returned |-> None, usage |-> FALSE]
        ELSE IF args.cmd = "read" /\ args.d
        THEN [raised |-> "TypeError", returned |-> None, usage |-> FALSE]
        ELSE IF args.cmd = "build" /\ args.d /\ args.p
        THEN IF ~lbw
             THEN [raised |-> "NameError", returned |-> None, usage |-> FALSE]
             ELSE [raised |-> "TypeError", returned |-> None, usage |-> FALSE]
        ELSE IF args.cmd = "parse_model" /\ args.f
        THEN IF ~lbw
             THEN [raised |-> "NameError", returned |-> None, usage |-> FALSE]
             ELSE IF ~args.t
             THEN [raised |-> "TypeError", returned |-> None, usage |-> FALSE]
             ELSE [raised |-> "none", returned |-> None, usage |-> FALSE]
        ELSE [raised |-> "none", returned |-> 1, usage |-> TRUE]

\* The status the interpreter exits with after "main()" at line 402: the
\* call is a statement, the value main returns is dropped; an exception that
\* leaves main ends the process with status 1.
ExitStatus(r) == IF r.raised = "none" THEN 0 ELSE 1

\* One run of "python thicket_db.py cmd [flags]".  No run gets as far as
\* reading or writing the database file: read and build end in the
\* constructor call, parse_model prints to stdout.
Main(args, lbw_bound, sdk_at_s) ==
    /\ pc = "idle"
    /\ ~opened
    /\ LET r == main(args, lbw_bound, sdk_at_s)
       IN  cli' = [ran |-> TRUE, argv |-> args, usage |-> r.usage,
                   status |-> ExitStatus(r), raised |-> r.raised]
    /\ UNCHANGED <<disk, opened, has_db, db, call, raised, critical_log>>
    /\ UNCHANGED build_vars
    /\ UNCHANGED <<models_dir, ready>>

CliNext == \E args \in Argv, lbw_bound \in BOOLEAN, sdk_at_s \in BOOLEAN :
               Main(args, lbw_bound, sdk_at_s)

CliSpec == Init /\ [][CliNext]_vars

(***************************************************************************)
(* The add-on: thicket_init() of src/__init__.py                           *)
(***************************************************************************)
\* thicket_init that leaves the stale file where it is.
thicket_init_no_unlink(file, paths_valid) ==
    LET first == OpenResult(file, FALSE)
        stale == first.raised = "ThicketDBOldSchemaError"
        file1 == file
        no_db == first.raised \in {"ThicketDBOldSchemaError", "FileNotFoundError"}
        fresh == OpenResult(file1, TRUE)
        count == ModelCountResult(first.has_db, first.db)
        previews == IterateResult(first.has_db, first.db)
        found == IF stale THEN "old schema"
                 ELSE IF first.raised = "FileNotFoundError" THEN "not found"
                 ELSE ""
    IN  IF ~paths_valid
        THEN [raised |-> "none", opened |-> FALSE, has_db |-> FALSE,
              db |-> NoDocument, disk |-> file, critical |-> 0,
              ready |-> FALSE, found |-> ""]
        ELSE IF first.raised # "none" /\ ~no_db
        THEN [raised |-> first.raised, opened |-> FALSE, has_db |-> FALSE,
              db |-> NoDocument, disk |-> file, critical |-> first.critical,
              ready |-> FALSE, found |-> found]
        ELSE IF ~no_db /\ count.raised # "none"
        THEN [raised |-> count.raised, opened |-> TRUE, has_db |-> first.has_db,
              db |-> first.db, disk |-> first.disk, critical |-> first.critical,
              ready |-> FALSE, found |-> found]
        ELSE IF no_db \/ count.value = {0}
        THEN [raised |-> fresh.raised, opened |-> fresh.raised = "none",
              has_db |-> fresh.has_db, db |-> fresh.db, disk |-> fresh.disk,
              critical |-> fresh.critical, ready |-> FALSE, found |-> found]
        ELSE IF previews.raised # "none"
        THEN [raised |-> previews.raised, opened |-> TRUE, has_db |-> first.has_db,
              db |-> first.db, disk |-> first.disk, critical |-> first.critical,
              ready |-> FALSE, found |-> found]
        ELSE [raised |-> "none", opened |-> TRUE, has_db |-> first.has_db,
              db |-> first.db, disk |-> first.disk, critical |-> first.critical,
              ready |-> TRUE, found |-> found]

\* thicket_init() on the file content file, lines 199-282.  paths_valid: the
\* preferences name a models path and an SDK path and the imports succeed;
\* otherwise the function returns before it touches the database.
\*   - db = ThicketDB(db_path, locales, python): ThicketDBOldSchemaError is
\*     caught and the file unlinked, FileNotFoundError is caught; any other
\*     exception leaves thicket_init with db = None;
\*   - db is None or db.model_count() == 0: the database is created anew
\*     (create=True) and the function returns, ready staying False;
\*   - else the translations are registered, populate_previews() iterates
\*     the models, and ready becomes True.
\* The result: the exception that leaves thicket_init, the global db (opened,
\* has_db, db), the file, and what the log says was found.
thicket_init(file, paths_valid) ==
    LET first == OpenResult(file, FALSE)
        stale == first.raised = "ThicketDBOldSchemaError"
        file1 == IF stale THEN NoFile ELSE file
        no_db == first.raised \in {"ThicketDBOldSchemaError", "FileNotFoundError"}
        fresh == OpenResult(file1, TRUE)
        count == ModelCountResult(first.has_db, first.db)
        previews == IterateResult(first.has_db, first.db)
        found == IF stale THEN "old schema"
                 ELSE IF first.raised = "FileNotFoundError" THEN "not found"
                 ELSE ""
    IN  IF ~paths_valid
        THEN [raised |-> "none", opened |-> FALSE, has_db |-> FALSE,
              db |-> NoDocument, disk |-> file, critical |-> 0,
              ready |-> FALSE, found |-> ""]
        ELSE IF first.raised # "none" /\ ~no_db
        THEN [raised |-> first.raised, opened |-> FALSE, has_db |-> FALSE,
              db |-> NoDocument, disk |-> file, critical |-> first.critical,
              ready |-> FALSE, found |-> found]
        ELSE IF ~no_db /\ count.raised # "none"
        THEN [raised |-> count.raised, opened |-> TRUE, has_db |-> first.has_db,
              db |-> first.db, disk |-> first.disk, critical |-> first.critical,
              ready |-> FALSE, found |-> found]
        ELSE IF no_db \/ count.value = {0}
        THEN [raised |-> fresh.raised, opened |-> fresh.raised = "none",
              has_db |-> fresh.has_db, db |-> fresh.db, disk |-> fresh.disk,
              critical |-> fresh.critical, ready |-> FALSE, found |-> found]
        ELSE IF previews.raised # "none"
        THEN [raised |-> previews.raised, opened |-> TRUE, has_db |-> first.has_db,
              db |-> first.db, disk |-> first.disk, critical |-> first.critical,
              ready |-> FALSE, found |-> found]
        ELSE [raised |-> "none", opened |-> TRUE, has_db |-> first.has_db,
              db |-> first.db, disk |-> first.disk, critical |-> first.critical,
              ready |-> TRUE, found |-> found]

ThicketInit(paths_valid) ==
    /\ pc = "idle"
    /\ LET r == thicket_init(disk, paths_valid)
       IN  /\ raised' = r.raised
           /\ opened' = r.opened
           /\ has_db' = r.has_db
           /\ db' = r.db
           /\ disk' = r.disk
           /\ critical_log' = r.critical
           /\ ready' = r.ready
           /\ call' = [op |-> "thicket_init", arg |-> r.found]
    /\ UNCHANGED build_vars
    /\ UNCHANGED <<models_dir, cli>>

\* The add-on is enabled, and thicket_init() runs again when its preferences
\* change.
InitNext == \E paths_valid \in BOOLEAN : ThicketInit(paths_valid)

InitSpec == Init /\ [][InitNext]_vars

Next ==
    \/ \E create \in BOOLEAN : Open(create)
    \/ Close
    \/ Save
    \/ \E partial \in PartialFiles : SaveInterrupted(partial)
    \/ \E filepath \in AssetFiles : add_model(filepath)
    \/ \E key \in QueryKeys : GetLabel(key)
    \/ GetTranslationDict
    \/ ModelCount
    \/ \E filepath \in QueryFilepaths, name \in QueryNames : GetModel(filepath, name)
    \/ Iterate
    \/ \E name \in QueryNames, vname \in QueryVariants : GetVariant(name, vname)
    \/ \E name \in QueryNames, vname \in QueryVariants, sname \in QuerySeasons :
          GetSeason(name, vname, sname)
    \/ \E cpu_count \in 0..MaxCpu : BuildStart(models_dir, cpu_count)
    \/ Spawn
    \/ PopLeft
    \/ WorkerExit
    \/ \E file \in AssetFiles : \E outs \in WorkerOutputs(file) :
          file = job.file /\ Collect(outs)
    \/ Finish

Spec == Init /\ [][Next]_vars

\* The steps of build() alone, on an object the caller has constructed.
AnyCollect ==
    /\ pc = "communicate"
    /\ job.exited
    /\ \E outs \in WorkerOutputs(job.file) : Collect(outs)

BuildNext ==
    \/ \E create \in BOOLEAN : Open(create)
    \/ \E cpu_count \in 0..MaxCpu : BuildStart(models_dir, cpu_count)
    \/ Spawn
    \/ PopLeft
    \/ WorkerExit
    \/ AnyCollect
    \/ Finish

\* communicate() returns once the awaited worker has ended: the guard of
\* Collect.
CanCollect == pc = "communicate" /\ job.exited

\* build() is a sequential loop in one thread: the statement it stands at is
\* executed when it can be, so each step of the driver is weakly fair; for
\* the collect step the fairness is written out with its guard,
\* <>[]CanCollect => []<><<AnyCollect>>_vars.  That every worker process
\* ends is the hypothesis the termination of build() is stated under.  The
\* caller is under no obligation to call anything.
LiveSpec ==
    /\ Init
    /\ [][BuildNext]_vars
    /\ WF_vars(Spawn)
    /\ WF_vars(PopLeft)
    /\ WF_vars(Finish)
    /\ WF_vars(WorkerExit)
    /\ []<>(~CanCollect) \/ []<><<AnyCollect>>_vars

(***************************************************************************)
(* Properties                                                              *)
(***************************************************************************)
IsPrefix(s, t) == Len(s) <= Len(t) /\ SubSeq(t, 1, Len(s)) = s

\* The workers alive in the driver's books: the deque and the awaited one.
InFlight == Len(jobs) + (IF pc = "communicate" THEN 1 ELSE 0)

\* The model name the SDK reports for a file.
NameOf(file) == lbw_load(file).name

DistinctNames(files) ==
    \A i, j \in 1..Len(files) : i # j => NameOf(files[i]) # NameOf(files[j])

\* The worker loop of build() has ended without an exception (line 247).
LoopEnded == pc = "loop" /\ Len(model_files) = 0 /\ Len(jobs) = 0

\* C1: while build() runs, the workers spawned and not yet collected are the
\* ones in the deque plus the awaited one, and they number at most the cap,
\* which is the CPU count or 4.
C1_BoundedConcurrency ==
    pc # "idle" =>
        /\ Len(spawned) - Len(collected) = InFlight
        /\ InFlight <= num_jobs
        /\ num_jobs \in (1..MaxCpu) \cup {DEFAULT_NUM_JOBS}

\* C1 witness: the cap is reached while files are still pending.
C1_Witness ==
    /\ pc = "loop"
    /\ Len(model_files) > 0
    /\ num_jobs = 2
    /\ Len(spawned) - Len(collected) = num_jobs

\* C2: the outputs are collected in spawn order: the files collected so far
\* are the first files spawned, in the same order.
C2_CollectInSpawnOrder == pc # "idle" => IsPrefix(collected, spawned)

\* C2 witness: one worker has been collected, and a younger worker has ended
\* while the oldest, the awaited one, is still running.
C2_Witness ==
    /\ pc = "communicate"
    /\ Len(collected) >= 1
    /\ ~job.exited
    /\ Len(jobs) >= 1
    /\ jobs[1].exited

C4_ErrorNamesFailedFile == pc # "idle" => error_log = decode_failed

\* C5: no output of a worker makes build() raise: while and after build()
\* runs, no exception has reached its caller.
C5_NoOutputAbortsBuild == call.op = "build" => raised = "none"

\* C6: opening a stored document of a schema version below SCHEMA_VERSION
\* raises ThicketDBOldSchemaError, yields no object and leaves the file as
\* it was, with create set or not.
C6_OldSchemaRaises ==
    [][\A create \in BOOLEAN :
          (Open(create) /\ IsDocumentFile(disk) /\ StoredVersion(disk) < SCHEMA_VERSION)
          => (raised' = "ThicketDBOldSchemaError" /\ ~opened' /\ disk' = disk)]_vars

\* C6 witness: an open with create set has raised on an old document.
C6_Witness ==
    /\ call = [op |-> "open", arg |-> "create"]
    /\ raised = "ThicketDBOldSchemaError"
    /\ ~opened
    /\ IsDocumentFile(disk)
    /\ StoredVersion(disk) < SCHEMA_VERSION

\* C7 as claimed: an open of a stored document succeeds only when the stored
\* version equals SCHEMA_VERSION.
C7_OnlyEqualVersionOpens ==
    (call.op = "open" /\ IsDocumentFile(disk) /\ opened) =>
        StoredVersion(disk) = SCHEMA_VERSION

\* C7 amended: an open of a stored document succeeds exactly when the stored
\* version is at least SCHEMA_VERSION, and then holds the stored document;
\* with a lower version it fails with the old-schema error.
C7_AtLeastCurrentVersionOpens ==
    (call.op = "open" /\ IsDocumentFile(disk)) =>
        /\ opened <=> StoredVersion(disk) >= SCHEMA_VERSION
        /\ opened => (raised = "none" /\ has_db /\ db = json_load(disk))
        /\ ~opened => raised = "ThicketDBOldSchemaError"

\* C7 witness: a document of a newer schema has been opened.
C7_Witness ==
    /\ call.op = "open"
    /\ opened
    /\ has_db
    /\ IsDocumentFile(disk)
    /\ StoredVersion(disk) > SCHEMA_VERSION

\* C8: opening a file that is not JSON raises to the caller and yields no
\* object.
C8_MalformedFileRaises ==
    (call.op = "open" /\ disk.kind = "text") => (~opened /\ raised # "none")

\* C9: opening a path without a file: with create, the object holds the
\* empty document of the current schema and the file holds that document;
\* without, FileNotFoundError is raised and no file appears.
C9_OpenAbsentFile ==
    [][\A create \in BOOLEAN :
          (Open(create) /\ disk.kind = "absent") =>
              IF create
              THEN /\ raised' = "none" /\ opened' /\ has_db'
                   /\ DOMAIN db'.models = {}
                   /\ DOMAIN db'.labels = {}
                   /\ db'.info.schema_version = SCHEMA_VERSION
                   /\ disk'.kind = "json"
                   /\ json_load(disk') = db'
              ELSE /\ raised' = "FileNotFoundError"
                   /\ ~opened'
                   /\ disk' = disk]_vars

\* C9 witness: the open with create has returned an object on the new file.
C9_Witness ==
    /\ call = [op |-> "open", arg |-> "create"]
    /\ opened
    /\ has_db
    /\ db = InitialDocument
    /\ disk.kind = "json"
    /\ json_load(disk) = InitialDocument

\* C10: after add_model(filepath) the model collection holds, under the
\* model's name, the record of that add.
C10_AddModelStoresRecord ==
    [][\A filepath \in AssetFiles :
          (has_db /\ add_model(filepath)) =>
              /\ raised' = "none"
              /\ NameOf(filepath) \in DOMAIN db'.models
              /\ db'.models[NameOf(filepath)] = parse_model(filepath).model]_vars

\* The merge the label store is described with: per key and per locale, the
\* incoming strings overwrite, every other stored string stays.
MergePerLocale(stored, incoming) ==
    [k \in DOMAIN stored \cup DOMAIN incoming |->
        IF k \in DOMAIN stored /\ k \in DOMAIN incoming THEN incoming[k] @@ stored[k]
        ELSE IF k \in DOMAIN incoming THEN incoming[k]
        ELSE stored[k]]

\* A worker output that build() merges: a record with a model and labels.
IsRecordText(outs) ==
    /\ outs.kind = "json"
    /\ {"model", "labels"} \subseteq DOMAIN json_load(outs)
    /\ "name" \in DOMAIN json_load(outs).model

\* C11: every step of build() that merges a worker's labels into the store
\* leaves the store equal to the per-key, per-locale merge of the stored and the
\* incoming labels: a stored locale the incoming entry lacks keeps its string,
\* an incoming locale overwrites, every other key is unchanged.
C11_LabelsMergePerLocale ==
    [][\A file \in AssetFiles : \A outs \in WorkerOutputs(file) :
          (file = job.file /\ IsRecordText(outs) /\ Collect(outs))
              => db'.labels = MergePerLocale(db.labels, json_load(outs).labels)]_vars

\* C12: after a save() of the in-memory document D, opening the same path
\* succeeds and yields a document equal to D: the same models, the same labels,
\* the same info with its schema_version.
C12_SaveThenOpenRoundTrip ==
    (call.op = "save" /\ raised = "none") =>
        \A create \in BOOLEAN :
            LET r == OpenResult(disk, create)
            IN  /\ r.raised = "none"
                /\ r.has_db
                /\ r.db.models = db.models
                /\ r.db.labels = db.labels
                /\ r.db.info = db.info
                /\ r.disk = disk

C12_Witness ==
    /\ call.op = "save"
    /\ raised = "none"
    /\ Cardinality(DOMAIN db.models) >= 2
    /\ \E k \in DOMAIN db.labels : Cardinality(DOMAIN db.labels[k]) >= 2
    /\ \E n \in DOMAIN db.models : Cardinality(DOMAIN db.models[n].variants) >= 2

\* C13: a save of the in-memory document, interrupted or not, leaves the
\* file holding either the complete previous content or the complete new
\* document, never an empty or partial text.
C13_SaveIsAtomic ==
    [][(opened /\ has_db) =>
          \/ disk' = disk
          \/ /\ disk'.kind = "json"
             /\ IsDocumentFile(disk')
             /\ json_load(disk') = db']_vars

\* The files whose worker was collected and whose output decoded.
DecodedFiles == Range(collected) \ Range(decode_failed)

\* C14: when build() has collected its last worker, and so when it returns,
\* the document holds exactly the models decoded from this build's workers,
\* each as its worker supplied it, and only label entries those workers
\* supplied; no model and no label from before the build is left, and
\* schema_version is SCHEMA_VERSION.  The returned build has saved that document.
C14_BuildReplacesDocument ==
    /\ LoopEnded =>
          /\ DOMAIN db.models = {NameOf(x) : x \in DecodedFiles}
          /\ \A n \in DOMAIN db.models :
                \E x \in DecodedFiles : NameOf(x) = n /\ db.models[n] = parse_model(x).model
          /\ \A k \in DOMAIN db.labels :
                \E x \in DecodedFiles :
                    /\ k \in DOMAIN parse_model(x).labels
                    /\ db.labels[k] = parse_model(x).labels[k]
          /\ db.info.schema_version = SCHEMA_VERSION
    /\ (call.op = "build" /\ pc = "idle" /\ raised = "none") =>
          /\ DOMAIN db.models \subseteq {NameOf(x) : x \in Range(models_dir)}
          /\ \A k \in DOMAIN db.labels :
                \E x \in Range(models_dir) :
                    /\ k \in DOMAIN parse_model(x).labels
                    /\ db.labels[k] = parse_model(x).labels[k]
          /\ db.info.schema_version = SCHEMA_VERSION
          /\ disk = save(db)

\* A build that ran on an object opened from the populated stored document
\* (model "Fir") has collected two models' workers.
C14_Witness ==
    /\ LoopEnded
    /\ disk.kind = "json"
    /\ "Fir" \in DOMAIN json_load(disk).models
    /\ Cardinality(DOMAIN db.models) >= 2
    /\ decode_failed # <<>>

\* C15: one build() writes the file exactly once: the step that leaves
\* build() is the save made when the pending list and the deque are empty and
\* every spawned worker is collected, and no other step of build() touches
\* the file.
C15_WrittenOnceAtEnd ==
    [][pc # "idle" =>
          IF pc' = "idle"
          THEN LoopEnded /\ collected = spawned /\ disk' = save(db)
          ELSE disk' = disk]_vars

\* The object answers queries: build() is not running.
Answers == pc = "idle" /\ opened

\* C16: on an object that has its document, get_model(filepath, name) never
\* raises; it returns the view of the record named name whenever name is the
\* name of a stored record, whatever filepath is; otherwise a view of a record
\* whose filepath is the given one, if there is one (also when name is the
\* empty string); and None only when neither the name nor the filepath matches.
C16_GetModelLookup ==
    (Answers /\ has_db) =>
        \A filepath \in QueryFilepaths, name \in QueryNames :
            LET r == get_model(has_db, db, filepath, name)
                byName == name \in DOMAIN db.models
                byPath == \E n \in DOMAIN db.models : db.models[n].filepath = filepath
            IN  /\ r.raised = "none"
                /\ byName => \E m \in r.value : m.name = name
                /\ (~byName /\ byPath) => \E m \in r.value : m.filepath = filepath
                /\ r.value = {} => (~byName /\ ~byPath)

\* C17: in every document, every stored model's default_variant is a key of
\* its variants, and every variant's default_season is one of its seasons.
C17_DefaultsResolve ==
    has_db =>
        \A n \in DOMAIN db.models :
            /\ db.models[n].default_variant \in DOMAIN db.models[n].variants
            /\ \A v \in DOMAIN db.models[n].variants :
                  db.models[n].variants[v].default_season
                      \in Range(db.models[n].variants[v].seasons)

\* C18: on the view of a stored model, get_variant(n) returns the view of
\* the variant named n when the model has it and the view of the record's
\* default_variant otherwise (no name given, or a name of no variant); on each
\* variant view, get_season does the same with seasons and default_season.
C18_DefaultsOfViews ==
    (Answers /\ has_db) =>
        \A name \in DOMAIN db.models :
            \A model \in get_model(has_db, db, None, name).value :
                LET m_rec == db.models[name]
                IN  \A vname \in QueryVariants :
                        LET chosen == IF vname \in DOMAIN m_rec.variants
                                      THEN vname ELSE m_rec.default_variant
                            variant == get_variant(model, vname)
                        IN  /\ variant = DBVariant(db, chosen, m_rec.variants[chosen],
                                                   m_rec.preview)
                            /\ \A sname \in QuerySeasons :
                                  get_season(variant, sname) =
                                      DBSeason(db, IF sname \in Range(m_rec.variants[chosen].seasons)
                                                   THEN sname
                                                   ELSE m_rec.variants[chosen].default_season)

\* The first oak is stored: two variants, the default one is the second, and
\* the default season is the second season.
C18_Witness ==
    /\ Answers
    /\ has_db
    /\ "Oak" \in DOMAIN db.models
    /\ \E model \in get_model(has_db, db, "oak.lbw.gz", "Oak").value :
          /\ model.filepath = "oak.lbw.gz"
          /\ get_variant(model, None).name = "01adult"
          /\ get_variant(model, "99old").name = "01adult"
          /\ get_variant(model, "01young").name = "01young"
          /\ get_season(get_variant(model, None), None).name = "summer"
          /\ get_season(get_variant(model, None), "spring").name = "spring"

\* C19: get_label(key) never raises and returns the stored en_US string of
\* key when the label store has one, else key itself, on every object an open
\* returned and after every build and add_model.
C19_GetLabelNeverRaises ==
    Answers =>
        \A key \in QueryKeys :
            LET r == GetLabelResult(has_db, db, key)
            IN  /\ r.raised = "none"
                /\ r.value = {IF key \in DOMAIN db.labels /\ "en_US" \in DOMAIN db.labels[key]
                              THEN db.labels[key]["en_US"]
                              ELSE key}

\* The label store holds a non-empty string for key in lang.
HasString(key, lang) ==
    /\ key \in DOMAIN db.labels
    /\ lang \in DOMAIN db.labels[key]
    /\ db.labels[key][lang] # ""

C21_IterationYieldsEveryModel ==
    (Answers /\ has_db) =>
        LET one == DBIter(has_db, db)
            two == DBIter(has_db, db)
            names == SortedNames(db)
        IN  /\ one.raised = "none"
            /\ Len(ForEach(one)) = model_count(db)
            /\ [i \in 1..Len(ForEach(one)) |-> ForEach(one)[i].name] = names
            /\ \A i \in 1..Len(names) : ForEach(one)[i] = DBModel(db, names[i])
            /\ \A i, j \in 1..Len(names) : i < j => names[i] # names[j]
            /\ IterateResult(has_db, db).value = {ForEach(two)}
            /\ Len(names) >= 1 =>
                   LET a == next(one)
                       b == next(two)
                   IN  /\ b.value = a.value
                       /\ ForEach(b.it) = ForEach(a.it)
                       /\ ForEach(two) = ForEach(one)


C23_MissingFlagsUsageNonZero ==
    LET a == cli.argv
        missing == \/ a.cmd = "read" /\ ~a.d
                   \/ a.cmd = "build" /\ (~a.d \/ ~a.p \/ ~a.s)
                   \/ a.cmd = "parse_model" /\ (~a.f \/ ~a.s)
    IN  (cli.ran /\ missing) => (cli.usage /\ cli.status # 0)

\* The files whose worker build() has waited for: those collected, and the
\* one whose output it holds when it is in communicate().
Reaped == IF pc = "communicate" /\ job.exited THEN Append(collected, job.file)
          ELSE collected

\* Each element of s occurs in it once.
NoDuplicates(s) == \A i, j \in 1..Len(s) : i # j => s[i] # s[j]

\* C24: over a whole build(), from its start to the step that leaves it,
\* every enumerated file has been handed to exactly one worker and every
\* spawned worker's output has been collected exactly once: no file is
\* skipped or parsed twice, no worker is left uncollected.
C24_EveryFileOnceEveryWorkerOnce ==
    [][(pc # "idle" /\ pc' = "idle") =>
          /\ Range(spawned) = Range(models_dir)
          /\ Len(spawned) = Len(models_dir)
          /\ NoDuplicates(spawned)
          /\ Reaped = spawned]_vars

\* build() has returned and has written the document it built.
BuildPersisted ==
    pc = "idle" /\ call.op = "build" /\ raised = "none" /\ disk = save(db)

\* C25: when every spawned worker eventually terminates, build() over K
\* files eventually leaves the worker loop after exactly K collect steps,
\* and then persists and returns; while the oldest in-flight worker, the one
\* awaited, has not terminated, build() collects no worker's output and
\* does not persist.
C25_BuildTerminatesAndPersists ==
    /\ (pc = "loop") ~> (LoopEnded /\ Len(collected) = Len(models_dir))
    /\ LoopEnded ~> BuildPersisted
    /\ [][(pc = "communicate" /\ ~job.exited) =>
             (collected' = collected /\ disk' = disk /\ pc' # "idle")]_vars

\* C26: when the worker loop of build() exits, the pending-file queue and
\* the in-flight set are both empty, so neither bookkeeping error (files
\* remaining, jobs still running) is logged in any run.
C26_NoBookkeepingError ==
    [][Finish => (/\ Len(model_files) = 0
                  /\ Len(jobs) = 0
                  /\ BookkeepingErrors(model_files, jobs) = {})]_vars

\* The loop is about to exit after three files went through two slots.
C26_Witness ==
    /\ LoopEnded
    /\ num_jobs = 2
    /\ Len(collected) = 3
    /\ Len(models_dir) = 3

\* The sequence s from its last element to its first.
Reverse(s) == [i \in 1..Len(s) |-> s[Len(s) - i + 1]]

\* C27 as stated: models are inserted in the enumeration order of the asset
\* files; when X precedes Y in the enumerated list, X's worker is spawned,
\* collected and merged before Y's.
C27_EnumerationOrder ==
    pc # "idle" =>
        /\ IsPrefix(spawned, models_dir)
        /\ IsPrefix(collected, spawned)
        /\ DOMAIN db.models = {NameOf(x) : x \in DecodedFiles}

\* C27 as the code has it: files are popped from the end of the enumerated
\* list, so workers are spawned, collected and merged in the reverse of the
\* enumeration order, whatever the order the workers end in; when X
\* precedes Y in the enumerated list, Y's worker comes first.
C27_ReverseEnumerationOrder ==
    pc # "idle" =>
        /\ IsPrefix(spawned, Reverse(models_dir))
        /\ model_files = SubSeq(models_dir, 1, Len(models_dir) - Len(spawned))
        /\ IsPrefix(collected, spawned)
        /\ DOMAIN db.models = {NameOf(x) : x \in DecodedFiles}

\* Three files through two slots: the second worker spawned has ended
\* before the first, and the first is the one collected.
C27_Witness ==
    /\ pc = "loop"
    /\ Len(models_dir) = 3
    /\ num_jobs = 2
    /\ spawned = <<models_dir[3], models_dir[2]>>
    /\ collected = <<models_dir[3]>>
    /\ Len(jobs) = 1
    /\ jobs[1].exited
    /\ DOMAIN db.models = {NameOf(models_dir[3])}

\* C28: whenever the driver of build() blocks waiting for a worker, either
\* no file is pending or the live workers, the awaited one and those in the
\* in-flight set, are as many as the cap: the driver never waits while a
\* file is pending and a slot is free.
C28_WaitsOnlyWhenFullOrDrained ==
    pc = "communicate" =>
        \/ Len(model_files) = 0
        \/ Len(jobs) + 1 = num_jobs

\* The driver waits for a worker that has not ended, a file is pending and
\* both slots are taken.
C28_Witness ==
    /\ pc = "communicate"
    /\ ~job.exited
    /\ Len(model_files) > 0
    /\ num_jobs = 2
    /\ Len(jobs) = 1

\* C29: each time the driver of build() takes the oldest worker from the
\* in-flight set, the set is not empty (popleft never raises IndexError),
\* for every number of files, zero included, and every cap the driver can
\* compute, the fallback of 4 included.
C29_PopLeftOnNonEmpty ==
    [][PopLeft => (/\ Len(jobs) > 0
                   /\ num_jobs >= 1
                   /\ job' = Head(jobs)
                   /\ raised' # "IndexError")]_vars

\* Under the fallback cap all three files are in flight and the oldest
\* worker has been taken from the set.
C29_Witness ==
    /\ pc = "communicate"
    /\ num_jobs = DEFAULT_NUM_JOBS
    /\ Len(spawned) = 3
    /\ Len(jobs) = 2
    /\ job.file = spawned[1]

\* The file holds a document of a schema older than the current one.
StaleFile(file) == IsDocumentFile(file) /\ StoredVersion(file) < SCHEMA_VERSION

\* C30: thicket_init() that finds a database file with a stale schema
\* deletes it and ends with a freshly created, empty, current-schema
\* database in memory and on disk, with none of the stale document's models
\* or labels, and leaves the status not ready; the status becomes ready
\* only when the opened database holds at least one model.
C30_StaleSchemaRecreated ==
    [][\A paths_valid \in BOOLEAN :
          ThicketInit(paths_valid) =>
              /\ (paths_valid /\ StaleFile(disk)) =>
                     /\ raised' = "none"
                     /\ opened' /\ has_db'
                     /\ db' = InitialDocument
                     /\ model_count(db') = 0
                     /\ db'.labels = EmptyDict
                     /\ db'.info.schema_version = SCHEMA_VERSION
                     /\ disk' = save(db')
                     /\ OpenResult(disk', FALSE).db = InitialDocument
                     /\ ~ready'
              /\ ready' => (opened' /\ has_db' /\ model_count(db') >= 1)]_vars

\* thicket_init() has found a stale file and left the empty database.
C30_Witness ==
    /\ call = [op |-> "thicket_init", arg |-> "old schema"]
    /\ opened /\ has_db
    /\ db = InitialDocument
    /\ disk = save(InitialDocument)
    /\ ~ready

====
